---- MODULE Spec2Model ----
(***************************************************************************)
(* Theme-catalog wire-protocol client (tools/theme_library/                *)
(* get_block_stocks.py): frame reader, varint decoder, record scanner,     *)
(* chunked body splitter, validator/deduplicator and the fetch session.    *)
(*                                                                         *)
(* Bytes are integers 0..255, byte strings are sequences of bytes, decoded *)
(* text is a sequence of Unicode code points.  Python indices are 0-based: *)
(* At(data, i) is data[i] and Slice(data, a, b) is data[a:b].              *)
(***************************************************************************)
EXTENDS Integers, Sequences, FiniteSets, TLC

\* ------------------------------------------------------------------ bytes

At(data, i) == data[i + 1]

Min2(a, b) == IF a <= b THEN a ELSE b

Max2(a, b) == IF a >= b THEN a ELSE b

\* data[a:b] for 0 <= a, with Python's clamping of b to len(data)
Slice(data, a, b) == SubSeq(data, a + 1, Min2(b, Len(data)))

\* bytes.find(one byte, start): lowest index >= start holding b, else -1
FindByte(data, b, start) ==
    IF \E i \in start..(Len(data) - 1) : At(data, i) = b
    THEN CHOOSE i \in start..(Len(data) - 1) :
            At(data, i) = b /\ \A j \in start..(i - 1) : At(data, j) # b
    ELSE -1

\* sub occurs in data at index i
OccursAt(data, sub, i) ==
    \A k \in 1..Len(sub) : data[i + k] = sub[k]

\* bytes.find(sub): lowest index where sub occurs, else -1
FindSeq(data, sub) ==
    IF \E i \in 0..(Len(data) - Len(sub)) : OccursAt(data, sub, i)
    THEN CHOOSE i \in 0..(Len(data) - Len(sub)) :
            OccursAt(data, sub, i)
            /\ \A j \in 0..(i - 1) : ~OccursAt(data, sub, j)
    ELSE -1

RECURSIVE Concat(_)
Concat(ss) == IF ss = <<>> THEN <<>> ELSE Head(ss) \o Concat(Tail(ss))

\* ------------------------------------------------- text (str) operations

\* bytes.decode("utf-8", errors="ignore"): number of continuation bytes a
\* lead byte needs, and the range its first continuation byte must lie in
Utf8Need(b) == IF b < 224 THEN 1 ELSE IF b < 240 THEN 2 ELSE 3

Utf8Lo(b) == IF b = 224 THEN 160 ELSE IF b = 240 THEN 144 ELSE 128

Utf8Hi(b) == IF b = 237 THEN 159 ELSE IF b = 244 THEN 143 ELSE 191

\* how many of the bytes after lead byte at i are valid continuation bytes
RECURSIVE Utf8Cont(_, _, _)
Utf8Cont(data, i, k) ==
    LET b == At(data, i)
        c == At(data, i + 1 + k)
        lo == IF k = 0 THEN Utf8Lo(b) ELSE 128
        hi == IF k = 0 THEN Utf8Hi(b) ELSE 191
    IN  IF k >= Utf8Need(b) \/ i + 1 + k >= Len(data) THEN k
        ELSE IF lo <= c /\ c <= hi THEN Utf8Cont(data, i, k + 1)
        ELSE k

Utf8CodePoint(data, i) ==
    LET b == At(data, i)
        n == Utf8Need(b)
    IN  IF n = 1 THEN (b % 32) * 64 + (At(data, i + 1) % 64)
        ELSE IF n = 2 THEN (b % 16) * 4096 + (At(data, i + 1) % 64) * 64
                           + (At(data, i + 2) % 64)
        ELSE (b % 8) * 262144 + (At(data, i + 1) % 64) * 4096
             + (At(data, i + 2) % 64) * 64 + (At(data, i + 3) % 64)

\* where decoding resumes after the byte at i, and what that byte contributes
Utf8Next(data, i) ==
    LET b == At(data, i)
        k == Utf8Cont(data, i, 0)
    IN  IF b < 128 THEN [text |-> <<b>>, pos |-> i + 1]
        ELSE IF b < 194 \/ b > 244 THEN [text |-> <<>>, pos |-> i + 1]
        ELSE IF k = Utf8Need(b)
        THEN [text |-> <<Utf8CodePoint(data, i)>>, pos |-> i + 1 + k]
        ELSE IF i + 1 + k = Len(data) THEN [text |-> <<>>, pos |-> Len(data)]
        ELSE [text |-> <<>>, pos |-> i + 1 + k]

\* decoding from i until position stop is reached (in runs of 16
\* bytes, which keeps the nesting of the evaluation shallow)
RECURSIVE Utf8DecodeRun(_, _, _, _)
Utf8DecodeRun(data, i, stop, text) ==
    IF i >= Len(data) \/ i >= stop THEN [text |-> text, pos |-> i]
    ELSE Utf8DecodeRun(data, Utf8Next(data, i).pos, stop,
                       text \o Utf8Next(data, i).text)

RECURSIVE Utf8DecodeFrom(_, _)
Utf8DecodeFrom(data, i) ==
    IF i >= Len(data) THEN <<>>
    ELSE LET r == Utf8DecodeRun(data, i, i + 16, <<>>)
         IN  r.text \o Utf8DecodeFrom(data, r.pos)

decode(data) == Utf8DecodeFrom(data, 0)

\* str.isspace() of one character (code points below U+3100)
IsSpaceChar(c) ==
    \/ c \in 9..13
    \/ c \in 28..32
    \/ c \in {133, 160, 5760, 8232, 8233, 8239, 8287, 12288}
    \/ c \in 8192..8202

\* str.isdigit() of one character: exact below U+0800, the listed ranges above
IsDigitChar(c) ==
    \/ c \in 48..57
    \/ c \in {178, 179, 185}
    \/ c \in 1632..1641
    \/ c \in 1776..1785
    \/ c \in 1984..1993
    \/ c \in 2406..2415
    \/ c \in 65296..65305

RECURSIVE LStrip(_)
LStrip(s) == IF s # <<>> /\ IsSpaceChar(Head(s)) THEN LStrip(Tail(s)) ELSE s

RECURSIVE RStrip(_)
RStrip(s) ==
    IF s # <<>> /\ IsSpaceChar(s[Len(s)])
    THEN RStrip(SubSeq(s, 1, Len(s) - 1)) ELSE s

strip(s) == RStrip(LStrip(s))

isdigit(s) == s # <<>> /\ \A i \in 1..Len(s) : IsDigitChar(s[i])

\* ----------------------------------------------------------- parse_varint

\* A Python int that may exceed 32 bits is kept as its base-128 digits, least
\* significant first, without trailing zero digits (0 is <<>>).
RECURSIVE Norm128(_)
Norm128(d) ==
    IF d # <<>> /\ d[Len(d)] = 0 THEN Norm128(SubSeq(d, 1, Len(d) - 1)) ELSE d

\* value <= n for a digit-sequence value and a small n (n < 128)
LeqSmall(v, n) == v = <<>> \/ (Len(v) = 1 /\ v[1] <= n)

\* the int of a digit-sequence value known to be below 128
SmallInt(v) == IF v = <<>> THEN 0 ELSE v[1]

\* never giving up
VarintTooLong_Never(shift) == FALSE

\* giving up one byte early
VarintTooLong_At56(shift) == shift >= 56

\* line 55
VarintTooLong(shift) == shift >= 64

\* leaving the loop one byte before the end
VarintAtEnd_Early(data, pos) == pos + 1 >= Len(data)

\* line 46: the loop condition fails
VarintAtEnd(data, pos) == pos >= Len(data)

RECURSIVE VarintLoop(_, _, _, _, _)
VarintLoop(data, start_index, pos, shift, digits) ==
    IF VarintAtEnd(data, pos)
    THEN [raised |-> FALSE, value |-> Norm128(digits), consumed |-> pos - start_index]
    ELSE LET byte == At(data, pos)
             result == Append(digits, byte % 128)
         IN  IF byte < 128
             THEN [raised |-> FALSE, value |-> Norm128(result),
                   consumed |-> pos + 1 - start_index]
             ELSE IF VarintTooLong(shift + 7)
             THEN [raised |-> TRUE, value |-> <<>>, consumed |-> pos + 1 - start_index]
             ELSE VarintLoop(data, start_index, pos + 1, shift + 7, result)

parse_varint(data, start_index) == VarintLoop(data, start_index, start_index, 0, <<>>)

\* ------------------------------------------------------- parse_theme_list

\* a Python dict with string keys: d[k] = v, "k in d"
Put(d, k, v) == [x \in (DOMAIN d) \cup {k} |-> IF x = k THEN v ELSE d[x]]

Has(d, k) == k \in DOMAIN d

FieldKey(field_num) ==
    CASE field_num = 5 -> "field5"
      [] field_num = 6 -> "field6"
      [] field_num = 7 -> "field7"
      [] field_num = 8 -> "field8"
      [] field_num = 9 -> "field9"
      [] field_num = 10 -> "field10"
      [] field_num = 11 -> "field11"

\* lines 204-223: store a decoded varint field; limit_up_count (always <= 100)
\* is kept as an ordinary integer
StoreVarint(theme_data, field_num, value) ==
    IF field_num \notin 5..11 THEN theme_data
    ELSE LET td == Put(theme_data, FieldKey(field_num), value)
         IN  IF field_num = 7 /\ LeqSmall(value, 100)
             THEN Put(td, "limit_up_count", SmallInt(value))
             ELSE IF field_num = 8 /\ LeqSmall(value, 100)
                     /\ ~Has(td, "limit_up_count")
             THEN Put(td, "limit_up_count", SmallInt(value))
             ELSE td

\* taking two bits for the wire type
WireType_TwoBits(field_tag) == field_tag % 4

\* line 189
WireType(field_tag) == field_tag % 8

\* lines 183-239: the trailing-field loop of one record.  read_end is one past
\* the highest index of theme_body the loop has read or skipped over.
RECURSIVE TrailLoop(_, _, _, _, _, _)
TrailLoop(theme_body, current_pos, theme_end, theme_data, all_fields, read_end) ==
    LET out == [theme_data |-> theme_data, all_fields |-> all_fields,
                current_pos |-> current_pos, read_end |-> read_end]
    IN
    IF ~(current_pos < theme_end) \/ current_pos >= Len(theme_body) THEN out
    ELSE
    LET field_tag == At(theme_body, current_pos)
        field_num == field_tag \div 8
        wire_type == WireType(field_tag)
        pos1 == current_pos + 1
    IN
    IF wire_type = 0
    THEN LET r == parse_varint(theme_body, pos1)
         IN  IF r.raised
             THEN [out EXCEPT !.current_pos = pos1,
                              !.read_end = Max2(read_end, pos1 + r.consumed)]
             ELSE TrailLoop(theme_body, pos1 + r.consumed, theme_end,
                            StoreVarint(theme_data, field_num, r.value),
                            Append(all_fields, <<field_num, r.value, "varint">>),
                            Max2(read_end, pos1 + r.consumed))
    ELSE IF wire_type = 2
    THEN IF pos1 >= Len(theme_body)
         THEN [out EXCEPT !.current_pos = pos1, !.read_end = Max2(read_end, pos1)]
         ELSE LET length == At(theme_body, pos1)
                  pos2 == pos1 + 1
              IN  IF pos2 + length > Len(theme_body)
                  THEN [out EXCEPT !.current_pos = pos2,
                                   !.read_end = Max2(read_end, pos2)]
                  ELSE TrailLoop(theme_body, pos2 + length, theme_end, theme_data,
                                 Append(all_fields, <<field_num, length, "length-delimited">>),
                                 Max2(read_end, pos2 + length))
    ELSE [out EXCEPT !.current_pos = pos1, !.read_end = Max2(read_end, pos1)]

\* line 118: the id payload is rejected as not numeric
IdNotDigit(theme_id_str) == theme_id_str = <<>> \/ ~isdigit(strip(theme_id_str))

\* an off-by-one in the length test
IdTooLong_OffByOne(theme_id_str) == Len(theme_id_str) >= 10

\* line 127: the cleaned id is rejected as too long
IdTooLong(theme_id_str) == Len(theme_id_str) > 10

\* resuming at the rejected anchor itself
ResyncIndex_AtAnchor(next_id, id_len) == next_id

\* resuming after the rejected anchor's claimed payload
ResyncIndex_SkipPayload(next_id, id_len) == next_id + 2 + id_len

\* lines 106, 111, 120, 128, 154: where the scan resumes after a rejected anchor
ResyncIndex(next_id, id_len) == next_id + 1

\* line 248: the record is kept only with an id and a name
KeepTheme(theme_data) ==
    /\ Has(theme_data, "id") /\ theme_data["id"] # <<>>
    /\ Has(theme_data, "name") /\ theme_data["name"] # <<>>

LoopOut(index, theme_list, next_id, branch, pc) ==
    [index |-> index, theme_list |-> theme_list, next_id |-> next_id,
     branch |-> branch, pc |-> pc]

\* lines 157-255: the rest of an iteration once id and name are decoded
ScanRecord(theme_body, theme_start, theme_list, next_id, theme_data, index) ==
    LET n == Len(theme_body)
        has_code_tag == index < n /\ At(theme_body, index) = 34
    IN
    IF has_code_tag /\ index + 1 >= n
    THEN \* line 159 reads theme_body[index + 1] past the end: IndexError
         LoopOut(index, theme_list, next_id, "code_len_index_error", "raised")
    ELSE
    LET code_len == IF has_code_tag THEN At(theme_body, index + 1) ELSE 0
        code_ok == has_code_tag /\ index + 2 + code_len <= n
        td1 == IF code_ok
               THEN Put(theme_data, "code",
                        decode(Slice(theme_body, index + 2, index + 2 + code_len)))
               ELSE theme_data
        index1 == IF code_ok THEN index + 2 + code_len ELSE index
        found == FindByte(theme_body, 10, index1)
        next_theme_start == IF found = -1 THEN n ELSE found
        td2 == Put(td1, "raw_data", Slice(theme_body, index1, next_theme_start))
        t == TrailLoop(theme_body, index1, next_theme_start, td2, <<>>, index1)
        td3 == Put(Put(Put(t.theme_data, "_all_fields", t.all_fields),
                       "_read_end", t.read_end),
                   "_trail_start", index1)
        list1 == IF KeepTheme(td3) THEN Append(theme_list, td3) ELSE theme_list
        index2 == IF next_theme_start <= theme_start
                  THEN next_theme_start + 1 ELSE next_theme_start
    IN  LoopOut(index2, list1, next_id,
                IF KeepTheme(td3) THEN "record" ELSE "record_dropped",
                IF index2 >= n THEN "done" ELSE "loop")

\* lines 90-255: one iteration of the main loop (the while test included)
ScanStep(theme_body, index, theme_list) ==
    LET n == Len(theme_body)
        theme_start == index
        next_id == FindByte(theme_body, 10, index)
    IN
    IF ~(index < n) THEN LoopOut(index, theme_list, -1, "exit", "done")
    ELSE IF next_id = -1 THEN LoopOut(index, theme_list, next_id, "no_anchor", "done")
    ELSE IF next_id + 2 >= n
    THEN LoopOut(index, theme_list, next_id, "anchor_at_end", "done")
    ELSE
    LET id_len == At(theme_body, next_id + 1)
        theme_id_str == decode(Slice(theme_body, next_id + 2, next_id + 2 + id_len))
        theme_data == Put([id |-> strip(theme_id_str)], "_anchor", next_id)
        index1 == next_id + 2 + id_len
    IN
    IF next_id + 2 + id_len > n
    THEN LoopOut(ResyncIndex(next_id, id_len), theme_list, next_id, "id_truncated", "loop")
    ELSE IF id_len > 20
    THEN LoopOut(ResyncIndex(next_id, id_len), theme_list, next_id, "id_len_gt_20", "loop")
    ELSE IF IdNotDigit(theme_id_str)
    THEN LoopOut(ResyncIndex(next_id, id_len), theme_list, next_id, "id_not_digit", "loop")
    ELSE IF IdTooLong(strip(theme_id_str))
    THEN LoopOut(ResyncIndex(next_id, id_len), theme_list, next_id, "id_too_long", "loop")
    ELSE IF index1 >= n - 1
    THEN LoopOut(index1, Append(theme_list, theme_data), next_id,
                 "no_room_for_name", "done")
    ELSE IF At(theme_body, index1) = 18
    THEN LET name_len == At(theme_body, index1 + 1)
             theme_name == decode(Slice(theme_body, index1 + 2, index1 + 2 + name_len))
         IN  IF index1 + 2 + name_len > n
             THEN LoopOut(index1, Append(theme_list, theme_data), next_id,
                          "name_truncated", "done")
             ELSE ScanRecord(theme_body, theme_start, theme_list, next_id,
                             Put(theme_data, "name", theme_name),
                             index1 + 2 + name_len)
    ELSE LoopOut(ResyncIndex(next_id, id_len), theme_list, next_id, "no_name_tag", "loop")

\* lines 79-86: where the scan of a window starts
START_MARKER == <<11, 193, 0, 0, 0>>

\* the marker is not looked for
StartIndex_Zero(theme_body) == 0

StartIndex(theme_body) ==
    LET start_marker == FindSeq(theme_body, START_MARKER)
    IN  IF start_marker # -1 THEN start_marker + 5 ELSE 0

\* parse_theme_list as a function: the loop run to its end.  raised is TRUE
\* when the call ends in an uncaught IndexError (no list is returned).
RECURSIVE ScanFrom(_, _, _)
ScanFrom(theme_body, index, theme_list) ==
    LET s == ScanStep(theme_body, index, theme_list)
    IN  IF s.pc = "loop" THEN ScanFrom(theme_body, s.index, s.theme_list)
        ELSE [raised |-> s.pc = "raised", theme_list |-> s.theme_list]

parse_theme_list(theme_body) == ScanFrom(theme_body, StartIndex(theme_body), <<>>)

\* ---------------------------------------- _extract_theme_list_from_packet

chunk_size == 4096

DATA_TYPES == {64, 96}

\* struct.unpack(">H", packet[1:3])
BigEndian16(hi, lo) == hi * 256 + lo

\* lines 382-391: the packet is decoded at all
PacketAccepted(packet) ==
    /\ Len(packet) >= 3
    /\ At(packet, 0) \in DATA_TYPES
    /\ Len(packet) >= 3 + BigEndian16(At(packet, 1), At(packet, 2))

\* line 397
TotalChunks(message_body) == (Len(message_body) + chunk_size - 1) \div chunk_size

\* a window that is not cut at its end
ChunkData_NoEnd(message_body, chunk_idx) ==
    Slice(message_body, chunk_idx * chunk_size, Len(message_body))

\* lines 399-401: the chunk_idx-th window (chunk_idx counts from 0)
ChunkData(message_body, chunk_idx) ==
    LET start_pos == chunk_idx * chunk_size
        end_pos == Min2(start_pos + chunk_size, Len(message_body))
    IN  Slice(message_body, start_pos, end_pos)

\* line 431: a character the validator treats as an abnormal control character
InvalidNameChar(c) == c < 32 /\ c \notin {9, 10, 13}

\* lines 408-435: the candidate passes validation
ThemeValid(theme) ==
    /\ Has(theme, "id") /\ theme["id"] # <<>>
    /\ Has(theme, "name") /\ theme["name"] # <<>>
    /\ isdigit(strip(theme["id"]))
    /\ Len(strip(theme["id"])) # 0 /\ Len(strip(theme["id"])) <= 10
    /\ Len(theme["name"]) # 0 /\ Len(theme["name"]) <= 100
    /\ \A i \in 1..Len(theme["name"]) : ~InvalidNameChar(theme["name"][i])

\* a filter that forgets what it has emitted
IsDuplicate_Never(theme_id, seen_ids) == FALSE

\* line 438: the id was already emitted
IsDuplicate(theme_id, seen_ids) == theme_id \in seen_ids

\* lines 442-449: the record handed to the caller; code is <<>> for None and
\* <<text>> otherwise
Simplified(theme) ==
    [id |-> strip(theme["id"]),
     name |-> theme["name"],
     code |-> IF Has(theme, "code") THEN <<theme["code"]>> ELSE <<>>,
     limit_up_count |-> IF Has(theme, "limit_up_count")
                        THEN theme["limit_up_count"] ELSE 0]

\* lines 407-449: one iteration of the filter loop
\* putting each kept record in front of the list
FilterStep_Prepend(theme, simplified, seen_ids) ==
    IF ThemeValid(theme) /\ ~IsDuplicate(strip(theme["id"]), seen_ids)
    THEN [simplified |-> <<Simplified(theme)>> \o simplified,
          seen_ids |-> seen_ids \cup {strip(theme["id"])}]
    ELSE [simplified |-> simplified, seen_ids |-> seen_ids]

FilterStep(theme, simplified, seen_ids) ==
    IF ThemeValid(theme) /\ ~IsDuplicate(strip(theme["id"]), seen_ids)
    THEN [simplified |-> Append(simplified, Simplified(theme)),
          seen_ids |-> seen_ids \cup {strip(theme["id"])}]
    ELSE [simplified |-> simplified, seen_ids |-> seen_ids]

RECURSIVE FilterFrom(_, _, _, _)
FilterFrom(themes, i, simplified, seen_ids) ==
    IF i > Len(themes) THEN simplified
    ELSE LET f == FilterStep(themes[i], simplified, seen_ids)
         IN  FilterFrom(themes, i + 1, f.simplified, f.seen_ids)

\* lines 398-402: the windows scanned in order; an IndexError ends the call
RECURSIVE CollectFrom(_, _, _)
CollectFrom(message_body, chunk_idx, themes) ==
    IF chunk_idx >= TotalChunks(message_body)
    THEN [raised |-> FALSE, themes |-> themes]
    ELSE LET r == parse_theme_list(ChunkData(message_body, chunk_idx))
         IN  IF r.raised THEN [raised |-> TRUE, themes |-> themes]
             ELSE CollectFrom(message_body, chunk_idx + 1, themes \o r.theme_list)

\* the whole function: raised (an uncaught IndexError) or the returned list
extract_theme_list_from_packet(packet) ==
    IF ~PacketAccepted(packet) THEN [raised |-> FALSE, result |-> <<>>]
    ELSE LET c == CollectFrom(Slice(packet, 3, Len(packet)), 0, <<>>)
         IN  IF c.raised THEN [raised |-> TRUE, result |-> <<>>]
             ELSE [raised |-> FALSE,
                   result |-> FilterFrom(c.themes, 1, <<>>, {})]

\* --------------------------------------------------------- receive_packet

\* line 521: how many bytes the header loop asks recv for
HeaderWant(header) == 3 - Len(header)

\* line 527
PacketBodyLength(header) == BigEndian16(At(header, 1), At(header, 2))

\* asking for the whole body again on every pass
BodyWant_Whole(body, packet_body_length) == packet_body_length

\* line 533: how many bytes the body loop asks recv for
BodyWant(body, packet_body_length) == packet_body_length - Len(body)

\* sock.recv(want) on a stream of which rd bytes are consumed: the lengths it
\* may return (0 only once the peer has closed and nothing is left)
RecvLengths(stream, rd, want) ==
    IF rd >= Len(stream) THEN {0} ELSE 1..Min2(want, Len(stream) - rd)

\* ------------------------------------------------------- fetch_theme_list

\* line 31: the bytes of log.txt, chosen by the operator
LOGIN_CMD == <<48, 0, 1, 0>>

\* line 32
THEME_CMD == <<64, 0, 10, 0, 11, 11, 193, 0, 0, 3, 2, 11, 193>>

\* a keep-alive declaring a one-byte body
heartbeat_cmd_Length1 == <<16, 0, 1>>

\* line 511
heartbeat_cmd == <<16, 0, 0>>

\* line 453: the default of the parameter
max_wait_packets == 20

\* running one pass more than asked
LoopRuns_OneMore(n) == n <= max_wait_packets

\* lines 470, 489: for _ in range(max_wait_packets), n passes begun
LoopRuns(n) == n < max_wait_packets

\* taking any frame for the login reply
IsLoginReply_Any(packet_type) == TRUE

\* line 475
IsLoginReply(packet_type) == packet_type \in {48, 96}

\* letting only connection errors through
RecvRaises_NotTimeout(kind) == kind = "OSError"

\* lines 471, 490: receive_packet is called outside any try/except, so what
\* recv raises leaves the loop
RecvRaises(kind) == kind \in {"timeout", "OSError"}

\* never taking the login for failed
AuthFailed_Never(li) == FALSE

\* line 478
AuthFailed(li) == ~li

\* line 494
IsDataPacket(packet_type) == packet_type \in {64, 96}

\* ------------------------------------------------ inputs of the scanner

MaxFrags == 3

MaxIdLen == 3

MaxNameLen == 2

\* str.encode("utf-8") of one code point, and of a text
Utf8EncodeChar(c) ==
    IF c < 128 THEN <<c>>
    ELSE IF c < 2048 THEN <<192 + (c \div 64), 128 + (c % 64)>>
    ELSE IF c < 65536
    THEN <<224 + (c \div 4096), 128 + ((c \div 64) % 64), 128 + (c % 64)>>
    ELSE <<240 + (c \div 262144), 128 + ((c \div 4096) % 64),
           128 + ((c \div 64) % 64), 128 + (c % 64)>>

RECURSIVE Utf8Encode(_)
Utf8Encode(s) ==
    IF s = <<>> THEN <<>>
    ELSE IF Len(s) = 1 THEN Utf8EncodeChar(s[1])
    ELSE Utf8Encode(SubSeq(s, 1, Len(s) \div 2))
         \o Utf8Encode(SubSeq(s, Len(s) \div 2 + 1, Len(s)))

\* all sequences over S of length lo..hi
SeqsOf(S, lo, hi) == UNION {[1..n -> S] : n \in lo..hi}

\* a length-delimited field as the server writes it: tag, one length byte, payload
LenField(tag, payload) == <<tag, Len(payload)>> \o payload

\* well-formed ids and names: digits '0' and '9'; 'A', e-acute, a CJK
\* character and an emoji (1 to 4 bytes of UTF-8); one id and one name of ten
\* characters, whose length byte is itself 0x0A
GoodIds == SeqsOf({48, 57}, 1, MaxIdLen) \cup {<<49, 50, 51, 52, 53, 54, 55, 56, 57, 48>>}

GoodNames ==
    SeqsOf({65, 233, 20013, 128512}, 1, MaxNameLen)
        \cup {<<65, 66, 67, 68, 69, 70, 71, 72, 73, 74>>}

ExactRecord(id, name) == LenField(10, id) \o LenField(18, Utf8Encode(name))

RecordWindows == {ExactRecord(id, name) : id \in GoodIds, name \in GoodNames}

\* pieces of windows: anchors with good and bad ids, names, codes, trailing
\* fields, the start marker and stray bytes
Frags ==
    { <<10>>,
      <<10, 1, 49>>,                                        \* id "1"
      <<10, 3, 49, 50, 97>>,                                \* id "12a"
      <<10, 11, 49, 50, 51, 52, 53, 54, 55, 56, 57, 48, 49>>, \* 11 digits
      <<10, 3, 32, 49, 32>>,                                \* id " 1 "
      <<10, 2, 217, 160>>,                                  \* U+0660
      <<10, 9>>,                                            \* truncated id
      <<18, 1, 65>>,                                        \* name "A"
      <<18, 5, 65>>,                                        \* truncated name
      <<34>>,                                               \* lone code tag
      <<56, 5>>,                                            \* field 7 = 5
      <<11, 193, 0, 0, 0>> }                                \* start marker

FragWindows == {Concat(fs) : fs \in SeqsOf(Frags, 0, MaxFrags)}

MaxTrailFields == 3

\* trailing fields: field 7 = 5, field 7 = 9, field 8 = 7, field 7 = 101,
\* field 8 = 200 (two bytes), and a length-delimited field 3
TrailFields ==
    { <<56, 5>>, <<56, 9>>, <<64, 7>>, <<56, 101>>, <<64, 200, 1>>,
      <<26, 1, 66>> }

\* a well-formed record followed by trailing fields
TrailWindows ==
    {ExactRecord(<<56>>, <<65>>) \o Concat(fs) :
        fs \in SeqsOf(TrailFields, 0, MaxTrailFields)}

\* a record whose trailing field runs into the record behind it (a varint
\* with the continuation bit set on its last byte, a length-delimited field
\* claiming 3 bytes), one with a tag of wire type 4, one ending in a tag
CrossWindows ==
    { ExactRecord(<<49>>, <<65>>) \o <<56, 128>> \o ExactRecord(<<50>>, <<66>>),
      ExactRecord(<<49>>, <<65>>) \o <<58, 3>> \o ExactRecord(<<50>>, <<66>>),
      ExactRecord(<<49>>, <<65>>) \o <<60, 5>> \o ExactRecord(<<50>>, <<66>>),
      ExactRecord(<<49>>, <<65>>) \o <<56>> }

\* records in front of, between and behind two start markers, and a record
\* behind a marker cut short
MarkerWindows ==
    { ExactRecord(<<49>>, <<65>>) \o START_MARKER \o ExactRecord(<<50>>, <<66>>)
          \o START_MARKER \o ExactRecord(<<51>>, <<67>>),
      ExactRecord(<<49>>, <<65>>) \o START_MARKER,
      <<11, 193, 0, 0>> \o ExactRecord(<<49>>, <<65>>) }

\* the tag of a varint field 7 or 8 as the last byte, behind whole fields
TagLastWindows == {w \o <<t>> : w \in TrailWindows, t \in {56, 64}}

ScanWindows ==
    RecordWindows \cup FragWindows \cup TrailWindows \cup CrossWindows
        \cup MarkerWindows \cup TagLastWindows

\* ------------------------------------- inputs of the packet decoder

MaxItems == 2

Rec(id, name) == ExactRecord(id, name)

\* n bytes 0xFF: no anchor, and a tag (wire type 7) that ends a trailing scan
Pad(n) == [i \in 1..n |-> 255]

RepeatChar(c, n) == [i \in 1..n |-> c]

\* pieces of frame bodies: whole records, good and bad, and stray bytes
Items ==
    { Rec(<<49>>, <<65>>),                          \* id "1", name "A"
      Rec(<<49>>, <<66>>),                          \* id "1", name "B"
      Rec(<<50>>, <<65>>) \o <<34, 1, 88>>,         \* id "2", name "A", code "X"
      Rec(<<49>>, <<67>>) \o <<34, 0>>,             \* id "1", name "C", code ""
      Rec(<<32, 49, 32>>, <<68>>),                  \* id " 1 ", name "D"
      <<10, 2, 217, 160>> \o LenField(18, <<65>>),  \* id U+0660, name "A"
      Rec(<<51>>, <<127>>),                         \* name DEL
      Rec(<<51>>, <<1>>),                           \* name U+0001
      Rec(<<52>>, <<9>>),                           \* name TAB
      Rec(<<53>>, <<133>>),                         \* name U+0085
      Rec(<<54>>, RepeatChar(65, 100)),             \* name of 100 characters
      Rec(<<55>>, RepeatChar(65, 101)),             \* name of 101 characters
      Rec(<<56>>, <<65>>) \o <<56, 5>>,             \* field 7 = 5
      Rec(<<57>>, <<65>>) \o <<34>>,                \* code tag with nothing after it
      <<10, 1, 57>>,                                \* id without a name
      <<0>> }

SmallBodies == {Concat(its) : its \in SeqsOf(Items, 0, MaxItems)}

\* bodies longer than one window: padding up to, across and past the 4096- and
\* 8192-byte boundaries, then records
PadLengths ==
    {chunk_size - 6, chunk_size - 2, chunk_size - 1, chunk_size,
     2 * chunk_size - 1, 2 * chunk_size}

PadTails ==
    { Rec(<<49>>, <<65>>),
      Rec(<<49, 50, 51, 52, 53, 54, 55, 56, 57, 48>>, <<20013>>),
      Rec(<<49>>, <<65>>) \o Rec(<<50>>, <<66>>),
      Rec(<<49>>, <<65>>) \o <<34>> }

BigBodies ==
    {Pad(n) \o t : n \in PadLengths, t \in PadTails}
        \cup {Rec(<<50>>, <<65>>) \o Pad(chunk_size - 7) \o Rec(<<50>>, <<66>>)}

\* bodies whose records are neither in id order nor all kept: an invalid name
\* between two records, a repeated id, and records in two windows
OrderBodies ==
    { Rec(<<51>>, <<67>>) \o Rec(<<52>>, <<1>>) \o Rec(<<49>>, <<65>>),
      Rec(<<50>>, <<65>>) \o Rec(<<49>>, <<66>>) \o Rec(<<50>>, <<67>>)
          \o Rec(<<48>>, <<68>>),
      Rec(<<57>>, <<65>>) \o Pad(chunk_size - 6) \o Rec(<<49>>, <<66>>)
          \o Rec(<<57>>, <<69>>) \o Rec(<<53>>, <<67>>) }

\* a frame as receive_packet returns it: type, big-endian length, body
Frame(type, payload) == <<type, Len(payload) \div 256, Len(payload) % 256>> \o payload

\* packets the decoder refuses: too short, not a data frame, shorter than declared
BadPackets ==
    { <<>>, <<64, 0>>,
      Frame(48, Rec(<<49>>, <<65>>)),
      <<64, 0, 7>> \o Rec(<<49>>, <<65>>),
      <<64, 1, 6>> \o Rec(<<49>>, <<65>>) }

\* a packet longer than declared: everything after the header is decoded
LongPackets == { <<96, 0, 0>> \o Rec(<<49>>, <<65>>) }

ExtPackets ==
    {Frame(t, b) : t \in DATA_TYPES, b \in SmallBodies}
        \cup {Frame(64, b) : b \in BigBodies \cup OrderBodies}
        \cup BadPackets \cup LongPackets

\* ---------------------------------------- inputs of the frame reader

MaxStream == 6

\* header bytes giving body lengths 0, 2 and 512 and more; 0x40 as a type
StreamBytes == {0, 2, 64}

Streams == SeqsOf(StreamBytes, 0, MaxStream)

\* -------------------------------------------- inputs of the session

\* frames the peer may send: login replies, data frames (empty, with a
\* record, with a record whose code tag ends the frame), and others
FetchFrames ==
    { Frame(48, <<>>), Frame(96, <<>>), Frame(96, Rec(<<49>>, <<65>>)),
      Frame(64, <<>>), Frame(64, Rec(<<50>>, <<66>>)),
      Frame(64, Rec(<<57>>, <<65>>) \o <<34>>),
      Frame(17, <<>>), Frame(80, <<1>>) }

\* what a call of receive_packet may do: return a frame, return None because
\* the peer closed, or let a socket error through
RecvOutcomes(closed) ==
    IF closed
    THEN {[kind |-> "none", frame |-> <<>>]}
    ELSE {[kind |-> "frame", frame |-> f] : f \in FetchFrames}
         \cup {[kind |-> "none", frame |-> <<>>],
               [kind |-> "timeout", frame |-> <<>>],
               [kind |-> "OSError", frame |-> <<>>]}

\* ------------------------------------------- inputs of the varint reader

MaxVarintDigits == 11

\* the LEB128 bytes of a value given by its base-128 digits, low digit first
Leb128Encode(v) ==
    IF v = <<>> THEN <<0>>
    ELSE [i \in 1..Len(v) |-> IF i < Len(v) THEN v[i] + 128 ELSE v[i]]

\* values of every length up to 77 bits (encodings with up to ten
\* continuation bytes), 300 = 2 * 128 + 44 among them
VarintValues ==
    {Norm128(d) : d \in SeqsOf({0, 127}, 0, MaxVarintDigits)}
        \cup {<<44, 2>>, <<1>>, <<0, 1>>, <<1, 0, 0, 0, 0, 0, 0, 0, 64>>}

\* what stands before and behind the encoding
VarintPrefixes == {<<>>, <<10>>, <<255, 128>>}

VarintSuffixes == {<<>>, <<0>>, <<172>>}

\* calls at the start of a whole encoding of v
WholeCalls ==
    {[data |-> p \o Leb128Encode(v) \o q, start_index |-> Len(p), v |-> v,
      whole |-> TRUE] :
        p \in VarintPrefixes, q \in VarintSuffixes, v \in VarintValues}

\* calls whose data ends within an encoding: only continuation bytes (none
\* to ten of them) stand from start_index to the end; v is what they hold
CutCalls ==
    {[data |-> p \o c, start_index |-> Len(p),
      v |-> Norm128([i \in 1..Len(c) |-> c[i] % 128]), whole |-> FALSE] :
        p \in VarintPrefixes, c \in SeqsOf({128, 255}, 0, MaxVarintDigits - 1)}

VarintCalls == WholeCalls \cup CutCalls

\* ------------------------------------------------------------ the state

VARIABLES
    \* parse_theme_list (lines 61-257)
    theme_body,     \* the window being scanned
    index,          \* scan position
    theme_list,     \* records emitted so far
    next_id,        \* the anchor of the last iteration (-1: none)
    branch,         \* the exit the last iteration took
    scan_pc,        \* "loop", "done" (returned) or "raised" (IndexError)
    \* _extract_theme_list_from_packet (lines 380-450)
    packet,         \* the frame handed in
    chunk_idx,      \* windows scanned so far
    themes,         \* candidates collected from the windows
    theme_idx,      \* candidates filtered so far
    simplified,     \* the list being returned
    seen_ids,       \* ids already emitted
    ext_pc,         \* "check", "chunks", "filter", "returned" or "raised"
    \* receive_packet (lines 516-538) and the byte stream it reads
    stream,         \* every byte the peer sends before it closes
    rd,             \* bytes of stream consumed by recv so far
    call_start,     \* rd when the current call began
    header,
    body,
    rp_pc,          \* "header", "body", "returned" or "raised"
    rp_result,      \* <<>> for None, <<frame>> for a returned frame
    recvs,          \* recv calls made by the current call
    \* fetch_theme_list (lines 453-504), its sockets and its peer
    f_pc,           \* the statement fetch_theme_list is at
    sock,           \* "none", "open", or "wrapped" into ssl_sock
    ssl_sock,       \* "None", "open" or "closed"
    connected,      \* ssl_sock.connect has returned
    sent,           \* the messages sendall has delivered, in order
    attempt,        \* passes of the current for loop begun
    logged_in,
    f_packet,       \* what receive_packet last returned: <<>> or <<frame>>
    f_theme_list,
    outcome,        \* "running", "returned", or the exception that left the call
    peer_closed,    \* the peer has closed the stream
    auth_rx,        \* receive_packet calls made since LOGIN_CMD was sent
    login_reply_at, \* which of them first returned a 0x30/0x60 frame (0: none)
    timed_out,      \* a recv has run into the socket timeout
    \* one call of parse_varint (lines 38-58)
    call_args,      \* [data, start_index] and the value encoded there
    call_result,    \* what the call returned
    call_pc         \* "call", "returned" or "raised" (ValueError)

scanVars == <<theme_body, index, theme_list, next_id, branch, scan_pc>>

extVars == <<packet, chunk_idx, themes, theme_idx, simplified, seen_ids, ext_pc>>

recvVars == <<stream, rd, call_start, header, body, rp_pc, rp_result, recvs>>

fetchVars == <<f_pc, sock, ssl_sock, connected, sent, attempt, logged_in,
               f_packet, f_theme_list, outcome, peer_closed, auth_rx,
               login_reply_at, timed_out>>

callVars == <<call_args, call_result, call_pc>>

vars == <<scanVars, extVars, recvVars, fetchVars, callVars>>

\* ------------------------------------------- parse_theme_list as a machine

ScanIdle ==
    /\ theme_body = <<>> /\ index = 0 /\ theme_list = <<>>
    /\ next_id = -1 /\ branch = "idle" /\ scan_pc = "idle"

ExtIdle ==
    /\ packet = <<>> /\ chunk_idx = 0 /\ themes = <<>> /\ theme_idx = 0
    /\ simplified = <<>> /\ seen_ids = {} /\ ext_pc = "idle"

RecvIdle ==
    /\ stream = <<>> /\ rd = 0 /\ call_start = 0 /\ header = <<>>
    /\ body = <<>> /\ rp_pc = "idle" /\ rp_result = <<>> /\ recvs = 0

FetchIdle ==
    /\ f_pc = "idle" /\ sock = "none" /\ ssl_sock = "None"
    /\ connected = FALSE /\ sent = <<>> /\ attempt = 0
    /\ logged_in = FALSE /\ f_packet = <<>> /\ f_theme_list = <<>>
    /\ outcome = "running" /\ peer_closed = FALSE
    /\ auth_rx = 0 /\ login_reply_at = 0 /\ timed_out = FALSE

CallIdle ==
    /\ call_args = <<>> /\ call_result = <<>> /\ call_pc = "idle"

\* lines 79-86
ScanInit ==
    /\ theme_body \in ScanWindows
    /\ index = StartIndex(theme_body)
    /\ theme_list = <<>>
    /\ next_id = -1
    /\ branch = "start"
    /\ scan_pc = "loop"
    /\ ExtIdle /\ RecvIdle /\ FetchIdle /\ CallIdle

\* lines 90-255: one iteration of the while loop
ScanIteration ==
    /\ scan_pc = "loop"
    /\ LET s == ScanStep(theme_body, index, theme_list)
       IN  /\ index' = s.index
           /\ theme_list' = s.theme_list
           /\ next_id' = s.next_id
           /\ branch' = s.branch
           /\ scan_pc' = s.pc
    /\ UNCHANGED <<theme_body, extVars, recvVars, fetchVars, callVars>>

ScanNext == ScanIteration

SpecScan == ScanInit /\ [][ScanNext]_vars

\* ------------------------ _extract_theme_list_from_packet as a machine

message_body == Slice(packet, 3, Len(packet))

ExtInit ==
    /\ packet \in ExtPackets
    /\ chunk_idx = 0 /\ themes = <<>> /\ theme_idx = 0
    /\ simplified = <<>> /\ seen_ids = {}
    /\ ext_pc = "check"
    /\ ScanIdle /\ RecvIdle /\ FetchIdle /\ CallIdle

\* lines 382-395: the header checks
ExtCheck ==
    /\ ext_pc = "check"
    /\ ext_pc' = IF PacketAccepted(packet) THEN "chunks" ELSE "returned"
    /\ UNCHANGED <<packet, chunk_idx, themes, theme_idx, simplified, seen_ids>>
    /\ UNCHANGED <<scanVars, recvVars, fetchVars, callVars>>

\* lines 398-402: one window is scanned
ExtChunk ==
    /\ ext_pc = "chunks"
    /\ chunk_idx < TotalChunks(message_body)
    /\ LET r == parse_theme_list(ChunkData(message_body, chunk_idx))
       IN  IF r.raised
           THEN /\ ext_pc' = "raised"
                /\ UNCHANGED <<chunk_idx, themes>>
           ELSE /\ themes' = themes \o r.theme_list
                /\ chunk_idx' = chunk_idx + 1
                /\ ext_pc' = "chunks"
    /\ UNCHANGED <<packet, theme_idx, simplified, seen_ids>>
    /\ UNCHANGED <<scanVars, recvVars, fetchVars, callVars>>

\* lines 404-406: the window loop is over
ExtChunksDone ==
    /\ ext_pc = "chunks"
    /\ chunk_idx >= TotalChunks(message_body)
    /\ ext_pc' = "filter"
    /\ UNCHANGED <<packet, chunk_idx, themes, theme_idx, simplified, seen_ids>>
    /\ UNCHANGED <<scanVars, recvVars, fetchVars, callVars>>

\* lines 407-449: one candidate is validated, deduplicated and kept or dropped
ExtFilter ==
    /\ ext_pc = "filter"
    /\ theme_idx < Len(themes)
    /\ LET f == FilterStep(themes[theme_idx + 1], simplified, seen_ids)
       IN  /\ simplified' = f.simplified
           /\ seen_ids' = f.seen_ids
    /\ theme_idx' = theme_idx + 1
    /\ UNCHANGED <<packet, chunk_idx, themes, ext_pc>>
    /\ UNCHANGED <<scanVars, recvVars, fetchVars, callVars>>

\* line 450
ExtReturn ==
    /\ ext_pc = "filter"
    /\ theme_idx >= Len(themes)
    /\ ext_pc' = "returned"
    /\ UNCHANGED <<packet, chunk_idx, themes, theme_idx, simplified, seen_ids>>
    /\ UNCHANGED <<scanVars, recvVars, fetchVars, callVars>>

ExtNext == ExtCheck \/ ExtChunk \/ ExtChunksDone \/ ExtFilter \/ ExtReturn

SpecExtract == ExtInit /\ [][ExtNext]_vars

\* ----------------------------------------- receive_packet as a machine

RecvInit ==
    /\ stream \in Streams
    /\ rd = 0 /\ call_start = 0
    /\ header = <<>> /\ body = <<>>
    /\ rp_pc = "header" /\ rp_result = <<>> /\ recvs = 0
    /\ ScanIdle /\ ExtIdle /\ FetchIdle /\ CallIdle

\* lines 520-532: one recv of the header loop; a complete header with a zero
\* body length falls through the body loop to line 538
RecvHeader ==
    /\ rp_pc = "header"
    /\ \E k \in RecvLengths(stream, rd, HeaderWant(header)) :
        LET chunk == SubSeq(stream, rd + 1, rd + k)
            hdr == header \o chunk
        IN  /\ rd' = rd + k
            /\ recvs' = recvs + 1
            /\ IF chunk = <<>>
               THEN /\ rp_pc' = "returned" /\ rp_result' = <<>>
                    /\ UNCHANGED header
               ELSE /\ header' = hdr
                    /\ IF Len(hdr) < 3
                       THEN /\ rp_pc' = "header" /\ UNCHANGED rp_result
                       ELSE IF Len(body) < PacketBodyLength(hdr)
                       THEN /\ rp_pc' = "body" /\ UNCHANGED rp_result
                       ELSE /\ rp_pc' = "returned"
                            /\ rp_result' = <<hdr \o body>>
    /\ UNCHANGED <<stream, call_start, body>>
    /\ UNCHANGED <<scanVars, extVars, fetchVars, callVars>>

\* lines 532-538: one recv of the body loop
RecvBody ==
    /\ rp_pc = "body"
    /\ \E k \in RecvLengths(stream, rd, BodyWant(body, PacketBodyLength(header))) :
        LET chunk == SubSeq(stream, rd + 1, rd + k)
            bdy == body \o chunk
        IN  /\ rd' = rd + k
            /\ recvs' = recvs + 1
            /\ IF chunk = <<>>
               THEN /\ rp_pc' = "returned" /\ rp_result' = <<>>
                    /\ UNCHANGED body
               ELSE /\ body' = bdy
                    /\ IF Len(bdy) < PacketBodyLength(header)
                       THEN /\ rp_pc' = "body" /\ UNCHANGED rp_result
                       ELSE /\ rp_pc' = "returned"
                            /\ rp_result' = <<header \o bdy>>
    /\ UNCHANGED <<stream, call_start, header>>
    /\ UNCHANGED <<scanVars, extVars, fetchVars, callVars>>

\* lines 521, 533: recv raises (socket.timeout, a reset connection); nothing
\* in receive_packet catches it
RecvRaise ==
    /\ rp_pc \in {"header", "body"}
    /\ rp_pc' = "raised"
    /\ recvs' = recvs + 1
    /\ UNCHANGED <<stream, rd, call_start, header, body, rp_result>>
    /\ UNCHANGED <<scanVars, extVars, fetchVars, callVars>>

\* lines 471, 490: the caller calls receive_packet again on the same socket
RecvCall ==
    /\ rp_pc = "returned"
    /\ rd < Len(stream)
    /\ call_start' = rd
    /\ header' = <<>> /\ body' = <<>>
    /\ rp_pc' = "header" /\ rp_result' = <<>> /\ recvs' = 0
    /\ UNCHANGED <<stream, rd>>
    /\ UNCHANGED <<scanVars, extVars, fetchVars, callVars>>

RecvNext == RecvHeader \/ RecvBody \/ RecvRaise \/ RecvCall

SpecRecv == RecvInit /\ [][RecvNext]_vars

\* --------------------------------------- fetch_theme_list as a machine

FetchInit ==
    /\ f_pc = "socket" /\ sock = "none" /\ ssl_sock = "None"
    /\ connected = FALSE /\ sent = <<>> /\ attempt = 0
    /\ logged_in = FALSE /\ f_packet = <<>> /\ f_theme_list = <<>>
    /\ outcome = "running" /\ peer_closed = FALSE
    /\ auth_rx = 0 /\ login_reply_at = 0 /\ timed_out = FALSE
    /\ ScanIdle /\ ExtIdle /\ RecvIdle /\ CallIdle

\* an exception leaves the try block for the finally clause
FetchRaise(exc) ==
    /\ outcome' = exc
    /\ f_pc' = "finally"

\* lines 457-462: the plain socket and the TLS context
FetchSocket ==
    /\ f_pc = "socket"
    /\ \/ /\ sock' = "open" /\ f_pc' = "wrap" /\ UNCHANGED outcome
       \/ /\ FetchRaise("OSError") /\ UNCHANGED sock
    /\ UNCHANGED <<ssl_sock, connected, sent, attempt, logged_in, f_packet,
                   f_theme_list, peer_closed, auth_rx, login_reply_at, timed_out>>
    /\ UNCHANGED <<scanVars, extVars, recvVars, callVars>>

\* line 464: wrap_socket; ssl_sock is bound only when it returns
FetchWrap ==
    /\ f_pc = "wrap"
    /\ \/ /\ sock' = "wrapped" /\ ssl_sock' = "open" /\ f_pc' = "connect"
          /\ UNCHANGED outcome
       \/ /\ FetchRaise("OSError") /\ UNCHANGED <<sock, ssl_sock>>
    /\ UNCHANGED <<connected, sent, attempt, logged_in, f_packet,
                   f_theme_list, peer_closed, auth_rx, login_reply_at, timed_out>>
    /\ UNCHANGED <<scanVars, extVars, recvVars, callVars>>

\* line 465
FetchConnect ==
    /\ f_pc = "connect"
    /\ \/ /\ connected' = TRUE /\ f_pc' = "login" /\ UNCHANGED outcome
       \/ /\ FetchRaise("OSError") /\ UNCHANGED connected
    /\ UNCHANGED <<sock, ssl_sock, sent, attempt, logged_in, f_packet,
                   f_theme_list, peer_closed, auth_rx, login_reply_at, timed_out>>
    /\ UNCHANGED <<scanVars, extVars, recvVars, callVars>>

\* lines 468-469
FetchLogin ==
    /\ f_pc = "login"
    /\ \/ /\ sent' = Append(sent, LOGIN_CMD)
          /\ logged_in' = FALSE /\ attempt' = 0
          /\ f_pc' = "auth" /\ UNCHANGED outcome
       \/ /\ FetchRaise("OSError") /\ UNCHANGED <<sent, logged_in, attempt>>
    /\ UNCHANGED <<sock, ssl_sock, connected, f_packet, f_theme_list,
                   peer_closed, auth_rx, login_reply_at, timed_out>>
    /\ UNCHANGED <<scanVars, extVars, recvVars, callVars>>

\* lines 470-477: one pass of the login loop
FetchAuthRecv ==
    /\ f_pc = "auth" /\ LoopRuns(attempt)
    /\ \E o \in RecvOutcomes(peer_closed) :
        /\ attempt' = attempt + 1
        /\ auth_rx' = auth_rx + 1
        /\ login_reply_at' =
             IF login_reply_at = 0 /\ o.kind = "frame" /\ o.frame[1] \in {48, 96}
             THEN auth_rx + 1 ELSE login_reply_at
        /\ peer_closed' = (peer_closed \/ o.kind = "none")
        /\ timed_out' = (timed_out \/ o.kind = "timeout")
        /\ IF RecvRaises(o.kind)
           THEN /\ FetchRaise(o.kind) /\ UNCHANGED <<f_packet, logged_in>>
           ELSE /\ f_packet' = IF o.kind = "none" THEN <<>> ELSE <<o.frame>>
                /\ UNCHANGED outcome
                /\ IF o.kind = "frame" /\ IsLoginReply(At(o.frame, 0))
                   THEN /\ logged_in' = TRUE /\ f_pc' = "auth_end"
                   ELSE /\ UNCHANGED logged_in /\ f_pc' = "auth"
    /\ UNCHANGED <<sock, ssl_sock, connected, sent, f_theme_list>>
    /\ UNCHANGED <<scanVars, extVars, recvVars, callVars>>

\* lines 478-479: after the loop
FetchAuthEnd ==
    /\ \/ f_pc = "auth_end"
       \/ f_pc = "auth" /\ ~LoopRuns(attempt)
    /\ IF AuthFailed(logged_in)
       THEN FetchRaise("RuntimeError")
       ELSE f_pc' = "heartbeat" /\ UNCHANGED outcome
    /\ UNCHANGED <<sock, ssl_sock, connected, sent, attempt, logged_in,
                   f_packet, f_theme_list, peer_closed, auth_rx,
                   login_reply_at, timed_out>>
    /\ UNCHANGED <<scanVars, extVars, recvVars, callVars>>

\* line 482 and send_heartbeat (lines 507-513)
FetchHeartbeat ==
    /\ f_pc = "heartbeat"
    /\ \/ /\ sent' = Append(sent, heartbeat_cmd)
          /\ f_pc' = "request" /\ UNCHANGED outcome
       \/ /\ FetchRaise("OSError") /\ UNCHANGED sent
    /\ UNCHANGED <<sock, ssl_sock, connected, attempt, logged_in, f_packet,
                   f_theme_list, peer_closed, auth_rx, login_reply_at, timed_out>>
    /\ UNCHANGED <<scanVars, extVars, recvVars, callVars>>

\* lines 485-488
FetchRequest ==
    /\ f_pc = "request"
    /\ \/ /\ sent' = Append(sent, THEME_CMD)
          /\ f_theme_list' = <<>> /\ attempt' = 0
          /\ f_pc' = "wait" /\ UNCHANGED outcome
       \/ /\ FetchRaise("OSError") /\ UNCHANGED <<sent, f_theme_list, attempt>>
    /\ UNCHANGED <<sock, ssl_sock, connected, logged_in, f_packet,
                   peer_closed, auth_rx, login_reply_at, timed_out>>
    /\ UNCHANGED <<scanVars, extVars, recvVars, callVars>>

\* lines 489-495: one pass of the wait loop up to the call of
\* _extract_theme_list_from_packet, which then runs as the machine above
FetchWaitRecv ==
    /\ f_pc = "wait" /\ LoopRuns(attempt)
    /\ \E o \in RecvOutcomes(peer_closed) :
        /\ attempt' = attempt + 1
        /\ peer_closed' = (peer_closed \/ o.kind = "none")
        /\ timed_out' = (timed_out \/ o.kind = "timeout")
        /\ IF RecvRaises(o.kind)
           THEN /\ FetchRaise(o.kind) /\ UNCHANGED <<f_packet, extVars>>
           ELSE /\ f_packet' = IF o.kind = "none" THEN <<>> ELSE <<o.frame>>
                /\ UNCHANGED outcome
                /\ IF o.kind = "frame" /\ IsDataPacket(At(o.frame, 0))
                   THEN /\ f_pc' = "extract"
                        /\ packet' = o.frame
                        /\ chunk_idx' = 0 /\ themes' = <<>> /\ theme_idx' = 0
                        /\ simplified' = <<>> /\ seen_ids' = {}
                        /\ ext_pc' = "check"
                   ELSE /\ f_pc' = "wait" /\ UNCHANGED extVars
    /\ UNCHANGED <<sock, ssl_sock, connected, sent, logged_in, f_theme_list,
                   auth_rx, login_reply_at>>
    /\ UNCHANGED <<scanVars, recvVars, callVars>>

\* lines 495-497: the call is over; its exception passes through, its list
\* is bound and ends the loop when it is not empty
FetchWaitGot ==
    /\ f_pc = "extract" /\ ext_pc \in {"returned", "raised"}
    /\ IF ext_pc = "raised"
       THEN /\ FetchRaise("IndexError") /\ UNCHANGED f_theme_list
       ELSE /\ f_theme_list' = simplified
            /\ UNCHANGED outcome
            /\ f_pc' = IF simplified # <<>> THEN "return" ELSE "wait"
    /\ UNCHANGED <<sock, ssl_sock, connected, sent, attempt, logged_in,
                   f_packet, peer_closed, auth_rx, login_reply_at, timed_out>>
    /\ UNCHANGED <<scanVars, extVars, recvVars, callVars>>

\* line 498
FetchReturn ==
    /\ \/ f_pc = "return"
       \/ f_pc = "wait" /\ ~LoopRuns(attempt)
    /\ outcome' = "returned"
    /\ f_pc' = "finally"
    /\ UNCHANGED <<sock, ssl_sock, connected, sent, attempt, logged_in,
                   f_packet, f_theme_list, peer_closed, auth_rx,
                   login_reply_at, timed_out>>
    /\ UNCHANGED <<scanVars, extVars, recvVars, callVars>>

\* lines 499-504: close() failing is swallowed; the descriptor is released
\* either way
FetchFinally ==
    /\ f_pc = "finally"
    /\ ssl_sock' = IF ssl_sock # "None" THEN "closed" ELSE ssl_sock
    /\ f_pc' = "done"
    /\ UNCHANGED <<sock, connected, sent, attempt, logged_in, f_packet,
                   f_theme_list, outcome, peer_closed, auth_rx,
                   login_reply_at, timed_out>>
    /\ UNCHANGED <<scanVars, extVars, recvVars, callVars>>

FetchNext ==
    \/ FetchSocket \/ FetchWrap \/ FetchConnect \/ FetchLogin
    \/ FetchAuthRecv \/ FetchAuthEnd \/ FetchHeartbeat \/ FetchRequest
    \/ FetchWaitRecv \/ ExtNext \/ FetchWaitGot \/ FetchReturn
    \/ FetchFinally

SpecFetch == FetchInit /\ [][FetchNext]_vars

\* ------------------------------------------- parse_varint as a machine

VarintInit ==
    /\ call_args \in VarintCalls
    /\ call_result = <<>> /\ call_pc = "call"
    /\ ScanIdle /\ ExtIdle /\ RecvIdle /\ FetchIdle

\* lines 38-58
VarintCall ==
    /\ call_pc = "call"
    /\ LET r == parse_varint(call_args.data, call_args.start_index)
       IN  /\ call_result' = r
           /\ call_pc' = IF r.raised THEN "raised" ELSE "returned"
    /\ UNCHANGED call_args
    /\ UNCHANGED <<scanVars, extVars, recvVars, fetchVars>>

VarintNext == VarintCall

SpecVarint == VarintInit /\ [][VarintNext]_vars

\* parse_varint called on its own and from the scan of a window
SpecVarintInScan == (VarintInit \/ ScanInit) /\ [][VarintNext \/ ScanNext]_vars

\* ------------------------------------------------------------- claims

\* a control character: C0, DEL or C1
IsControlChar(c) == c < 32 \/ c \in 127..159

\* a byte string w read as 0x0A, len(id), id, 0x12, len(name), name
ExactIdLen(w) == At(w, 1)

ExactId(w) == Slice(w, 2, 2 + ExactIdLen(w))

ExactNameBytes(w) == Slice(w, 4 + ExactIdLen(w), Len(w))

\* the text whose UTF-8 encoding is the name payload, when there is one
ExactName(w) == decode(ExactNameBytes(w))

\* w is exactly one record with an id of 1 to 10 ASCII digits and a name that
\* is valid UTF-8, non-empty, at most 100 characters, without control characters
IsExactRecord(w) ==
    /\ Len(w) >= 6
    /\ At(w, 0) = 10
    /\ ExactIdLen(w) \in 1..10
    /\ Len(w) >= 4 + ExactIdLen(w)
    /\ \A i \in 1..Len(ExactId(w)) : ExactId(w)[i] \in 48..57
    /\ At(w, 2 + ExactIdLen(w)) = 18
    /\ Len(w) = 4 + ExactIdLen(w) + At(w, 3 + ExactIdLen(w))
    /\ Utf8Encode(ExactName(w)) = ExactNameBytes(w)
    /\ Len(ExactName(w)) \in 1..100
    /\ \A i \in 1..Len(ExactName(w)) : ~IsControlChar(ExactName(w)[i])

C2_Id == ExactId(theme_body)

C2_Name == ExactName(theme_body)

C2_IsExactRecord == IsExactRecord(theme_body)

\* C2: a window that is exactly 0x0A, len(id), id, 0x12, len(name), name, for
\* an id of 1 to 10 ASCII digits and a name that is non-empty, at most 100
\* characters, valid UTF-8 and free of control characters, scans to exactly
\* one record, with that id and that name.
C2_ExactRecord ==
    (C2_IsExactRecord /\ scan_pc # "loop")
        => /\ scan_pc = "done"
           /\ Len(theme_list) = 1
           /\ theme_list[1]["id"] = C2_Id
           /\ Has(theme_list[1], "name")
           /\ theme_list[1]["name"] = C2_Name

C2_Witness ==
    /\ scan_pc = "done"
    /\ C2_IsExactRecord
    /\ Len(theme_list) = 1
    /\ Len(C2_Id) = 10
    /\ 20013 \in {C2_Name[i] : i \in 1..Len(C2_Name)}
    /\ theme_body = ExactRecord(C2_Id, C2_Name)

\* the anchor the next iteration will look at, and its claimed id payload
C3_Anchor == FindByte(theme_body, 10, index)

C3_IdLen == At(theme_body, C3_Anchor + 1)

C3_Payload == decode(Slice(theme_body, C3_Anchor + 2, C3_Anchor + 2 + C3_IdLen))

\* the iteration about to run rejects its anchor for a non-numeric or overlong id
C3_Rejects ==
    /\ scan_pc = "loop" /\ index < Len(theme_body)
    /\ C3_Anchor # -1
    /\ C3_Anchor + 2 < Len(theme_body)
    /\ C3_Anchor + 2 + C3_IdLen <= Len(theme_body)
    /\ \/ C3_IdLen > 20
       \/ IdNotDigit(C3_Payload)
       \/ IdTooLong(strip(C3_Payload))

\* C3: when an anchor at position p is rejected because its id payload is not
\* numeric or is too long, the next anchor search starts at exactly p + 1, and
\* nothing is emitted for the anchor.
C3_ResyncByOne ==
    [][C3_Rejects => /\ index' = C3_Anchor + 1
                     /\ theme_list' = theme_list
                     /\ scan_pc' = "loop"]_vars

C3_Witness ==
    /\ branch \in {"id_not_digit", "id_too_long"}
    /\ index = next_id + 1
    /\ At(theme_body, next_id + 1) >= 3
    /\ next_id > 0

\* candidate k of themes is valid and carries the (cleaned) id
C4_ValidWithId(k, id) == ThemeValid(themes[k]) /\ strip(themes[k]["id"]) = id

\* C4: no two returned records share an id, and the record returned for an id
\* is the first candidate in discovery order that passes validation, with its
\* own name and code; every id with a valid candidate is returned.
C4_FirstOccurrenceWins ==
    ext_pc = "returned" =>
        /\ \A i, j \in 1..Len(simplified) :
            i # j => simplified[i].id # simplified[j].id
        /\ \A i \in 1..Len(simplified) :
            \E k \in 1..Len(themes) :
                /\ C4_ValidWithId(k, simplified[i].id)
                /\ \A j \in 1..(k - 1) : ~C4_ValidWithId(j, simplified[i].id)
                /\ simplified[i].name = themes[k]["name"]
                /\ simplified[i].code = IF Has(themes[k], "code")
                                        THEN <<themes[k]["code"]>> ELSE <<>>
        /\ \A k \in 1..Len(themes) :
            ThemeValid(themes[k]) =>
                \E i \in 1..Len(simplified) : simplified[i].id = strip(themes[k]["id"])

C4_Witness ==
    /\ ext_pc = "returned"
    /\ \E j, k \in 1..Len(themes) :
        /\ j < k
        /\ ThemeValid(themes[j]) /\ ThemeValid(themes[k])
        /\ themes[j]["id"] = themes[k]["id"]
        /\ themes[j]["name"] # themes[k]["name"]
        /\ \E i \in 1..Len(simplified) :
            /\ simplified[i].id = themes[j]["id"]
            /\ simplified[i].name = themes[j]["name"]

\* C5: every returned record has an id that is non-empty, made only of the
\* ASCII digits '0'-'9', and at most 10 long.
C5_IdAsciiDigits ==
    \A i \in 1..Len(simplified) :
        /\ Len(simplified[i].id) \in 1..10
        /\ \A n \in 1..Len(simplified[i].id) : simplified[i].id[n] \in 48..57

\* C6: every returned record has a name that is non-empty, at most 100
\* characters long, and free of control characters other than tab, newline
\* and carriage return.
C6_NameClean ==
    \A i \in 1..Len(simplified) :
        /\ Len(simplified[i].name) \in 1..100
        /\ \A n \in 1..Len(simplified[i].name) :
            IsControlChar(simplified[i].name[n])
                => simplified[i].name[n] \in {9, 10, 13}

\* the k-th window of the body, cut at multiples of 4096
C7_Window(k) ==
    SubSeq(message_body, 4096 * k + 1, Min2(4096 * (k + 1), Len(message_body)))

\* what scanning the first n windows, each on its own, yields
RECURSIVE C7_ScanOfWindows(_)
C7_ScanOfWindows(n) ==
    IF n = 0 THEN <<>>
    ELSE C7_ScanOfWindows(n - 1) \o parse_theme_list(C7_Window(n - 1)).theme_list

\* the body is padding up to offset 4095, then one well-formed record whose
\* 0x0A tag is the last byte of the first window
C7_TagEndsWindow ==
    /\ Len(message_body) > 4096
    /\ FindByte(message_body, 10, 0) = 4095
    /\ IsExactRecord(Slice(message_body, 4095, Len(message_body)))

\* C7: the body is scanned window by window, the windows being cut at offsets
\* 0, 4096, 8192, ... and covering the body, so the candidates are exactly
\* those of the separate windows; a record whose tag is the last byte of a
\* window and whose payload lies in the next one is not in the result.
C7_WindowsIndependent ==
    /\ ext_pc \in {"chunks", "filter", "returned"} /\ PacketAccepted(packet)
        => themes = C7_ScanOfWindows(chunk_idx)
    /\ ext_pc \in {"filter", "returned"} /\ PacketAccepted(packet)
        => /\ 4096 * chunk_idx >= Len(message_body)
           /\ 4096 * (chunk_idx - 1) < Len(message_body) \/ chunk_idx = 0
    /\ ext_pc = "returned" /\ PacketAccepted(packet) /\ C7_TagEndsWindow
        => \A i \in 1..Len(simplified) :
            ~(/\ simplified[i].id = ExactId(Slice(message_body, 4095, Len(message_body)))
              /\ simplified[i].name = ExactName(Slice(message_body, 4095, Len(message_body))))

C7_Witness ==
    /\ ext_pc = "returned"
    /\ PacketAccepted(packet)
    /\ C7_TagEndsWindow
    /\ chunk_idx = 2
    /\ simplified = <<>>

\* C8: whatever a window holds, parse_theme_list and
\* _extract_theme_list_from_packet return a list and never raise.
C8_NeverRaises == ext_pc # "raised"

\* the frame a call has returned
C1_Frame == rp_result[1]

\* C1: whatever the stream holds and however recv splits it, receive_packet
\* returns no frame or a frame that is the next 3 + body_length bytes of the
\* stream (type first, length big-endian in bytes 1-2), and it has then
\* consumed exactly those bytes; it never holds more than the frame it reads.
C1_FrameExact ==
    /\ rd <= Len(stream)
    /\ rp_pc = "header" => rd - call_start = Len(header) /\ Len(header) < 3
    /\ rp_pc = "body"
        => /\ rd - call_start = 3 + Len(body)
           /\ Len(body) < 256 * stream[call_start + 2] + stream[call_start + 3]
    /\ rp_pc = "returned" /\ rp_result # <<>>
        => /\ Len(C1_Frame) >= 3
           /\ Len(C1_Frame) - 3 = 256 * C1_Frame[2] + C1_Frame[3]
           /\ C1_Frame = SubSeq(stream, call_start + 1, call_start + Len(C1_Frame))
           /\ rd = call_start + Len(C1_Frame)
    /\ rp_pc = "returned" /\ rp_result = <<>> => rd = Len(stream)

C1_Witness ==
    /\ rp_pc = "returned" /\ rp_result # <<>>
    /\ call_start = 0
    /\ Len(C1_Frame) = 5
    /\ recvs = 4
    /\ rd < Len(stream)

\* the three messages of a session, in the order the code sends them
C9_Script == <<LOGIN_CMD, heartbeat_cmd, THEME_CMD>>

\* C9: what fetch_theme_list has sent is always a prefix of [LOGIN_CMD,
\* heartbeat, THEME_CMD]; nothing is sent before connect has returned, and
\* the heartbeat and THEME_CMD go out only after a 0x30 or 0x60 frame came in.
C9_SendOrder ==
    /\ Len(sent) <= 3
    /\ sent = SubSeq(C9_Script, 1, Len(sent))
    /\ sent # <<>> => connected /\ ssl_sock # "None"
    /\ Len(sent) >= 2 => login_reply_at # 0

C9_Witness ==
    /\ f_pc = "done" /\ outcome = "returned"
    /\ sent = C9_Script
    /\ login_reply_at = 3

\* the login loop is over and no receive raised in it
C10_AuthOver ==
    \/ f_pc \in {"auth_end", "heartbeat", "request", "wait", "extract",
                "return"}
    \/ f_pc = "auth" /\ ~(attempt < 20)
    \/ outcome = "RuntimeError"
    \/ Len(sent) >= 2

C10_AuthSucceeded == logged_in /\ C10_AuthOver

\* C10: when no receive raises, login succeeds exactly when one of the first
\* 20 receives after LOGIN_CMD returns a 0x30 or 0x60 frame: it fails only
\* after 20 receives without one, and frames of other types before the reply
\* only use up attempts.
C10_AuthIffReply ==
    /\ auth_rx <= 20
    /\ C10_AuthOver => (logged_in <=> login_reply_at \in 1..20)
    /\ logged_in => auth_rx = login_reply_at
    /\ outcome = "RuntimeError" => auth_rx = 20 /\ login_reply_at = 0
    /\ f_pc = "auth" /\ auth_rx < 20 => ~logged_in /\ outcome = "running"

C10_Witness ==
    /\ C10_AuthSucceeded
    /\ login_reply_at = 20
    /\ f_pc = "heartbeat"

\* the login loop has used all its passes and none brought a 0x30/0x60 frame
C11_Exhausted == f_pc = "auth" /\ auth_rx = 20 /\ login_reply_at = 0

C11_AfterFailure ==
    outcome = "RuntimeError"
        => /\ f_pc \in {"finally", "done"}
           /\ sent = <<LOGIN_CMD>>
           /\ f_theme_list = <<>>
           /\ login_reply_at = 0
           /\ f_pc = "done" => ssl_sock = "closed"

\* C11: when the login loop runs out without a 0x30/0x60 frame the next step
\* raises RuntimeError; after it nothing but LOGIN_CMD was ever sent, no list
\* is returned, and the socket is closed once the call is over.
C11_AuthFailureRaises ==
    /\ []C11_AfterFailure
    /\ [][C11_Exhausted => outcome' = "RuntimeError" /\ f_pc' = "finally"]_vars

C11_Witness ==
    /\ outcome = "RuntimeError" /\ f_pc = "done"
    /\ ssl_sock = "closed" /\ auth_rx = 20
    /\ sent = <<LOGIN_CMD>>

\* the call has returned, or has left the wait loop by break
C12_Leaving == f_pc = "return" \/ outcome = "returned"

C12_AcceptsOrSkips ==
    Len(sent) = 3
        => /\ attempt <= 20
           /\ f_pc = "wait" => f_theme_list = <<>>
           /\ C12_Leaving /\ f_theme_list # <<>>
                => /\ f_packet = <<packet>>
                   /\ packet[1] \in {64, 96}
                   /\ ext_pc = "returned" /\ f_theme_list = simplified
           /\ C12_Leaving /\ f_theme_list = <<>>
                => f_pc # "return" /\ attempt = 20

\* C12: after THEME_CMD at most 20 receives are made; the list returned is
\* that of the first 0x40/0x60 frame decoding to a non-empty list, which is
\* also the last frame read; every other frame is skipped, so a frame never
\* ends the fetch by itself, and without such a frame the result is empty.
C12_FirstNonEmptyFrame ==
    /\ C12_AcceptsOrSkips
    /\ outcome # "IndexError"

\* C13: receive_packet returns "no frame" exactly when the stream closed
\* before the 3-byte header was complete; a closure after the header, with
\* the declared body incomplete, is not returned as "no frame".
C13_NoneOnlyBeforeHeader ==
    rp_pc = "returned" => (rp_result = <<>> <=> Len(header) < 3)

\* C14: once a receive has found the stream closed by the peer, the call
\* ends neither as a login failure nor with a returned list, and it makes no
\* further receive.
C14_CloseIsTransportError ==
    /\ [](peer_closed => outcome \notin {"RuntimeError", "returned"})
    /\ [][peer_closed => attempt' = attempt]_vars

C15_AfterTimeout ==
    timed_out
        => /\ outcome = "timeout"
           /\ f_pc \in {"finally", "done"}
           /\ f_pc = "done" => ssl_sock = "closed"

\* C15: a receive that runs into the socket timeout ends the call with that
\* error, in the login phase and in the catalog phase alike: no receive is
\* retried, nothing more is sent, and the socket is closed when the call is
\* over.
C15_TimeoutRaised ==
    /\ []C15_AfterTimeout
    /\ [][timed_out => sent' = sent /\ attempt' = attempt /\ auth_rx' = auth_rx]_vars

C15_Witness ==
    /\ timed_out /\ outcome = "timeout" /\ f_pc = "done"
    /\ ssl_sock = "closed"
    /\ Len(sent) = 3 /\ attempt = 2

\* C16: when fetch_theme_list is over, however it ended, no socket it opened
\* is still open; and once the socket is closed nothing is sent or received.
C16_AllSocketsClosed ==
    /\ [](f_pc = "done" => sock # "open" /\ ssl_sock # "open")
    /\ [][ssl_sock = "closed" => sent' = sent /\ attempt' = attempt]_vars

\* the value encoded in the call's data is below 2^63: at most nine digits
C17_Below2To63 == call_args.whole /\ Len(call_args.v) <= 9

\* C17: parse_varint applied at the start of the LEB128 bytes of a value
\* below 2^63, whatever stands before and behind them, returns that value and
\* the number of bytes of the encoding, and does not raise; AC 02 gives 300
\* (digits 44, 2) with 2 bytes consumed.
C17_RoundTrip ==
    call_pc \in {"returned", "raised"} /\ C17_Below2To63
        => /\ call_pc = "returned"
           /\ call_result.value = call_args.v
           /\ call_result.consumed = Len(Leb128Encode(call_args.v))

C17_Witness ==
    /\ call_pc = "returned"
    /\ call_args.data = <<10, 172, 2, 172>> /\ call_args.start_index = 1
    /\ call_result.value = <<44, 2>> /\ call_result.consumed = 2

\* a receive of the wait loop has just returned a 0x11 frame
C18_Got0x11 ==
    /\ f_pc = "wait" /\ attempt' = attempt + 1
    /\ f_packet' = <<Frame(17, <<>>)>> /\ outcome' = "running"

\* C18: the second message sent is exactly 10 00 00; between it and THEME_CMD
\* no receive is made; and a 0x11 frame arriving in the wait loop changes
\* nothing but the pass count.
C18_KeepAlive ==
    /\ [](Len(sent) >= 2 => sent[2] = <<16, 0, 0>>)
    /\ [][Len(sent) = 2
            => f_packet' = f_packet /\ (Len(sent') = 3 \/ attempt' = attempt)]_vars
    /\ [][C18_Got0x11
            => f_pc' = "wait" /\ f_theme_list' = f_theme_list /\ sent' = sent]_vars

\* a fetch that returned records after two receives, neither a 0x11 frame
C18_Witness ==
    /\ f_pc = "done" /\ outcome = "returned" /\ f_theme_list # <<>>
    /\ sent[2] = <<16, 0, 0>>
    /\ auth_rx = 1 /\ attempt = 1

\* the anchors of the records of one scan are strictly ascending
C19_Ascending(list) ==
    \A i \in 1..(Len(list) - 1) : list[i]["_anchor"] < list[i + 1]["_anchor"]

\* what a step has added at the end of themes
C19_Added == SubSeq(themes', Len(themes) + 1, Len(themes'))

\* C19: candidates are collected window by window in ascending offset, each
\* window contributing its records in ascending anchor position, and the
\* filter goes through them in that order, appending the record it keeps at
\* the end of the result: the result is in discovery order.
C19_DiscoveryOrder ==
    /\ [][themes' # themes
            => /\ chunk_idx' = chunk_idx + 1
               /\ themes' = themes \o C19_Added
               /\ C19_Added = parse_theme_list(C7_Window(chunk_idx)).theme_list
               /\ C19_Ascending(C19_Added)]_vars
    /\ [][theme_idx' # theme_idx
            => /\ theme_idx' = theme_idx + 1
               /\ \/ simplified' = simplified
                  \/ simplified' = Append(simplified,
                                          Simplified(themes[theme_idx + 1]))]_vars
    /\ [][simplified' # simplified => theme_idx' # theme_idx]_vars

\* ids "9", "1", "5" returned from two windows, a repeated "9" dropped
C19_Witness ==
    /\ ext_pc = "returned"
    /\ chunk_idx = 2
    /\ Len(themes) = 4
    /\ Len(simplified) = 3
    /\ simplified[1].id = <<57>> /\ simplified[2].id = <<49>>
    /\ simplified[3].id = <<53>>

\* the positions, among the fields decoded behind a record, of the varint
\* fields numbered 7 or 8 whose value is at most 100
C20_Qualifying(t) ==
    {i \in 1..Len(t["_all_fields"]) :
        /\ t["_all_fields"][i][3] = "varint"
        /\ t["_all_fields"][i][1] \in {7, 8}
        /\ LeqSmall(t["_all_fields"][i][2], 100)}

C20_First(t) == CHOOSE i \in C20_Qualifying(t) : \A j \in C20_Qualifying(t) : i <= j

\* C20: limit_up_count of a scanned record is the value of the first
\* qualifying field 7 or 8 behind it, and is absent when there is none (or
\* when the record ended before its trailing fields).
C20_FirstQualifyingField ==
    \A k \in 1..Len(theme_list) :
        IF ~Has(theme_list[k], "_all_fields")
        THEN ~Has(theme_list[k], "limit_up_count")
        ELSE IF C20_Qualifying(theme_list[k]) = {}
        THEN ~Has(theme_list[k], "limit_up_count")
        ELSE /\ Has(theme_list[k], "limit_up_count")
             /\ theme_list[k]["limit_up_count"] =
                  SmallInt(theme_list[k]["_all_fields"][C20_First(theme_list[k])][2])

\* the candidates a returned record can come from
C21_Sources(r) ==
    {j \in 1..Len(themes) : ThemeValid(themes[j]) /\ Simplified(themes[j]) = r}

\* C21: a returned record carries a limit_up_count number only when the
\* scanned record it comes from has one; a record without a qualifying field
\* 7 or 8 is not returned with a number such as 0.
C21_AbsentStaysAbsent ==
    ext_pc = "returned"
        => \A i \in 1..Len(simplified) :
              \E j \in C21_Sources(simplified[i]) :
                  Has(themes[j], "limit_up_count")

\* the length-prefixed payload of the anchor a record was scanned from
C22_Payload(t) ==
    Slice(theme_body, t["_anchor"] + 2,
          t["_anchor"] + 2 + At(theme_body, t["_anchor"] + 1))

\* C22: every record the scanner holds was started at an anchor whose payload
\* is 1 to 10 bytes long and made of ASCII digit bytes only.
C22_IdAsciiDigitBytes ==
    \A k \in 1..Len(theme_list) :
        /\ Len(C22_Payload(theme_list[k])) \in 1..10
        /\ \A i \in 1..Len(C22_Payload(theme_list[k])) :
              C22_Payload(theme_list[k])[i] \in 48..57

\* the iteration just made found a valid id with no name field behind it
C23_NoName == branch' \in {"no_name_tag", "no_room_for_name"}

\* C23: every record the scanner holds has an id and a name; an anchor whose
\* valid id is not followed by the tag 0x12, the window ending right behind
\* the id included, adds no record and the search resumes one byte past it.
C23_NameRequired ==
    /\ [](\A k \in 1..Len(theme_list) :
            Has(theme_list[k], "id") /\ Has(theme_list[k], "name"))
    /\ [][C23_NoName
            => /\ theme_list' = theme_list
               /\ index' = next_id' + 1
               /\ scan_pc' = "loop"]_vars

\* C24: when the name's length byte claims more bytes than the window has
\* left, the candidate is dropped and the scan of the window goes on one byte
\* past its anchor.
C24_ResumeAfterTruncatedName ==
    [][branch' = "name_truncated"
        => /\ theme_list' = theme_list
           /\ index' = next_id' + 1
           /\ scan_pc' = "loop"]_vars

\* the position of the next anchor behind a record's trailing fields (or the
\* window end)
C25_NextAnchor(t) == t["_trail_start"] + Len(t["raw_data"])

\* C25: the trailing-field scan of a record reads and skips only bytes that
\* lie before the next 0x0A anchor (or the window end).
C25_StaysBeforeNextAnchor ==
    \A k \in 1..Len(theme_list) :
        Has(theme_list[k], "_read_end")
            => theme_list[k]["_read_end"] <= C25_NextAnchor(theme_list[k])

\* the first tag behind the record has a wire type other than 0 and 2
C26_BadFirstTag(t) ==
    /\ Len(t["raw_data"]) > 0
    /\ At(theme_body, t["_trail_start"]) % 8 \notin {0, 2}

\* the record the iteration just made has added
C26_New == theme_list'[Len(theme_list')]

RECURSIVE C27_Run(_, _)
C27_Run(data, i) ==
    IF i < Len(data) /\ At(data, i) >= 128 THEN 1 + C27_Run(data, i + 1) ELSE 0

C27_Continuations == C27_Run(call_args.data, call_args.start_index)

\* a terminating byte stands behind the continuation bytes
C27_Terminated == call_args.start_index + C27_Continuations < Len(call_args.data)

\* C27: parse_varint raises exactly when ten consecutive bytes carry the
\* continuation bit, and decodes every encoding of up to nine continuation
\* bytes and a terminating byte, returning its value and all its bytes.
C27_OverflowGuard ==
    call_pc \in {"returned", "raised"}
        => /\ call_pc = "raised" <=> C27_Continuations >= 10
           /\ C27_Continuations <= 9 /\ C27_Terminated
                => /\ call_result.value = call_args.v
                   /\ call_result.consumed = C27_Continuations + 1

C27_Witness ==
    /\ call_pc = "raised"
    /\ C27_Continuations = 10
    /\ call_args.start_index = 2

\* C28: an iteration of the main loop of parse_theme_list either leaves the
\* loop or moves the scan position forward, and the loop is left as soon as
\* the position reaches the window end: the scan of a window of n bytes makes
\* at most n iterations.
C28_Progress ==
    /\ [](index <= Len(theme_body))
    /\ [][scan_pc = "loop" /\ index < Len(theme_body)
            => scan_pc' # "loop" \/ index' > index]_vars
    /\ [][scan_pc = "loop" /\ index >= Len(theme_body) => scan_pc' = "done"]_vars

\* a window left at its third anchor after two rejected anchors, the scan
\* position having moved from 0 to 1 and from 1 to 3
C28_Witness ==
    /\ scan_pc = "done" /\ branch = "anchor_at_end"
    /\ theme_body = <<10, 9, 10, 9, 10, 9>>
    /\ index = 3 /\ next_id = 4

\* C29: when the window holds 0B C1 00 00 00 the scan starts right behind the
\* first occurrence and returns no record anchored before that point; when it
\* does not, the scan starts at offset 0.
C29_MarkerAt(i) ==
    /\ i + 5 <= Len(theme_body)
    /\ Slice(theme_body, i, i + 5) = <<11, 193, 0, 0, 0>>

C29_Markers == {i \in 0..Len(theme_body) : C29_MarkerAt(i)}

C29_Start ==
    IF C29_Markers = {} THEN 0
    ELSE 5 + CHOOSE i \in C29_Markers : \A j \in C29_Markers : i <= j

C29_StartsBehindMarker ==
    /\ branch = "start" => index = C29_Start
    /\ index >= C29_Start
    /\ \A k \in 1..Len(theme_list) : theme_list[k]["_anchor"] >= C29_Start

\* a window with two markers, scanned from behind the first: the record in
\* front of the first marker is not returned, the two behind it are
C29_Witness ==
    /\ scan_pc = "done"
    /\ Cardinality(C29_Markers) = 2
    /\ C29_Start = 11
    /\ Len(theme_list) = 2
    /\ theme_list[1]["_anchor"] = 11 /\ theme_list[1]["id"] = <<50>>
    /\ theme_list[2]["_anchor"] = 22 /\ theme_list[2]["id"] = <<51>>

\* from start_index to the end of the data every byte carries the
\* continuation bit (no byte at all when start_index is at the end)
C30_EndsOpen ==
    call_args.start_index + C27_Continuations = Len(call_args.data)

\* the value held by the low seven bits of those bytes, low digit first
C30_Partial ==
    Norm128([i \in 1..C27_Continuations |->
                At(call_args.data, call_args.start_index + i - 1) % 128])

\* the window is a record and whole trailing fields followed by the tag t
C30_TagLast(t) == \E w \in TrailWindows : theme_body = w \o <<t>>

\* C30 as stated: parse_varint returns the partial value and the number of
\* bytes read, without raising, whenever the data ends with the continuation
\* bit still set or start_index is at the end.
C30_PartialAlways ==
    call_pc \in {"returned", "raised"} /\ C30_EndsOpen
        => /\ call_pc = "returned"
           /\ call_result.value = C30_Partial
           /\ call_result.consumed = C27_Continuations

\* C30, amended: parse_varint consumes no more bytes than the data holds
\* from start_index on; when the data ends after at most nine continuation
\* bytes, or start_index is at the end, it returns the partial value (0 when
\* nothing was read) and the number of bytes read; and a tag of a varint
\* field that is the last byte of a window records the value 0 for the field.
C30_PartialAtEnd ==
    /\ call_pc = "returned"
        => call_result.consumed <= Len(call_args.data) - call_args.start_index
    /\ call_pc \in {"returned", "raised"} /\ C30_EndsOpen /\ C27_Continuations <= 9
        => /\ call_pc = "returned"
           /\ call_result.value = C30_Partial
           /\ call_result.consumed = C27_Continuations
    /\ \A t \in {56, 64} :
         scan_pc = "done" /\ C30_TagLast(t)
            => /\ Len(theme_list) = 1
               /\ theme_list[1]["_read_end"] = Len(theme_body)
               /\ theme_list[1]["_all_fields"] # <<>>
               /\ LET all_fields == theme_list[1]["_all_fields"]
                  IN  all_fields[Len(all_fields)] = <<t \div 8, <<>>, "varint">>
               /\ theme_list[1][FieldKey(t \div 8)] = <<>>

\* two continuation bytes and the end of the data: 127 and 2 bytes read
C30_Witness ==
    /\ call_pc = "returned"
    /\ call_args.data = <<10, 255, 128>> /\ call_args.start_index = 1
    /\ call_result.value = <<127>> /\ call_result.consumed = 2

\* nothing to read: start_index at the end of the data
C30_WitnessNothingRead ==
    /\ call_pc = "returned"
    /\ call_args.data = <<10>> /\ call_args.start_index = 1
    /\ call_result.value = <<>> /\ call_result.consumed = 0

\* the tag of field 7 as the last byte of the window: field7 = 0
C30_WitnessTagLast ==
    /\ scan_pc = "done" /\ C30_TagLast(56)
    /\ Len(theme_body) = 7
    /\ theme_list[1]["field7"] = <<>>

====
